---- MODULE Spec2Model ----
(***************************************************************************)
(* Model of the nestjs-clean-ddd-starter repository.                       *)
(*                                                                         *)
(*   Spec         the running NestJS application: AppModule wires          *)
(*                AppController (GET /) to GetHelloUseCase.                *)
(*   SpecUser     CreateUserUseCase.execute run by concurrent callers      *)
(*                against one UserRepository, with the User entity.        *)
(*   SpecProduct  the Product entity of the architecture guide and its     *)
(*                applyDiscount method.                                    *)
(*   SpecEntity   User instances constructed directly and renamed with     *)
(*                updateName.                                              *)
(*   SpecController  POST /users of the presentation guide, through        *)
(*                UserController and the guide's CreateUserUseCase.        *)
(*   SpecFair     Spec with the event loop's fairness, for liveness.       *)
(*                                                                         *)
(* JavaScript strings that the code inspects (email, name) are sequences   *)
(* of one-character strings; a nullable reference is a set with at most    *)
(* one element ({} is null); numbers of Product are exact rationals.       *)
(***************************************************************************)
EXTENDS Integers, Sequences, FiniteSets, TLC

VARIABLES
    req,        \* req[r]: the HTTP request r as received, or NoRequest
    pc,         \* pc[r]: where the handling of request r stands
    promise,    \* promise[r]: what GetHelloUseCase.execute() returned to r's handler
    result,     \* result[r]: how the promise returned by getHello() settled
    responses,  \* responses[r]: the HTTP responses written for r, in order
    calls,      \* calls[r]: how often r caused getHello / execute to be called
    container,  \* the Nest application: instances and their fields
    call,       \* call[c]: one invocation of CreateUserUseCase.execute
    users,      \* the UserRepository's stored users, by id
    products,   \* the Product instances constructed so far, in order
    lastOp,     \* the last applyDiscount call: receiver before/after, outcome
    instances,  \* the User instances constructed outside the use case, in order
    lastUpdate, \* the last updateName call: receiver before/after, outcome
    renamedFrom, \* renamedFrom[n]: the instance whose updateName returned instances[n], or 0
    ctl         \* ctl[r]: one POST /users handled by UserController.createUser

vars == <<req, pc, promise, result, responses, calls, container,
          call, users, products, lastOp, instances, lastUpdate, renamedFrom, ctl>>

httpVars == <<req, pc, promise, result, responses, calls, container>>
userVars == <<call, users>>
productVars == <<products, lastOp>>
entityVars == <<instances, lastUpdate, renamedFrom>>
ctlVars == <<ctl>>

----------------------------------------------------------------------------
(* Bounds *)

MaxRequests == 2
MaxCalls == 2
MaxIds == 2
MaxTime == 1
MaxProducts == 3
MaxInstances == 3

ReqIds == 1..MaxRequests
CallIds == 1..MaxCalls
Ids == 1..MaxIds
Times == 0..MaxTime

----------------------------------------------------------------------------
(* JavaScript values *)

\* A value of TypeScript type string that may be missing at run time.
Undefined == [type |-> "undefined", chars |-> <<>>]
Str(s) == [type |-> "string", chars |-> s]

\* !v for a string-or-undefined v: undefined and "" are falsy.
Falsy(v) == v.type = "undefined" \/ Len(v.chars) = 0

\* String.prototype.includes for a one-character needle.
Includes(v, ch) == \E i \in 1..Len(v.chars) : v.chars[i] = ch

EmailAX == Str(<<"a", "@", "x">>)
EmailCY == Str(<<"c", "@", "y">>)
EmailBob == Str(<<"b", "o", "b">>)
NameAl == Str(<<"A", "l">>)
Empty == Str(<<>>)

Emails == {Undefined, Empty, EmailAX, EmailCY, EmailBob}
Names == {Undefined, Empty, NameAl}

\* CreateUserRequest
CreateUserRequests == [email : Emails, name : Names]

NoBody == [email |-> Undefined, name |-> Undefined]

----------------------------------------------------------------------------
(* The application: AppModule, AppController, GetHelloUseCase *)

\* @Module({ controllers: [...] })
AppModule_controllers_withUsers == {"AppController", "UserController"}
AppModule_controllers == {"AppController"}

\* @Module({ providers: [...] })
AppModule_providers == {"GetHelloUseCase"}

\* The routes each controller class declares with its decorators.
ControllerRoutes(c) ==
    CASE c = "AppController" ->
           {[method |-> "GET", path |-> "/", handler |-> "AppController.getHello"]}
      [] c = "UserController" ->
           {[method |-> "POST", path |-> "/users", handler |-> "UserController.createUser"]}
      [] OTHER -> {}

\* Nest's router: the routes of the controllers the module registers.
Routes == UNION {ControllerRoutes(c) : c \in AppModule_controllers}

\* The handler of a request; the query string and headers play no part.
Handlers(q) == {rt.handler : rt \in {x \in Routes : x.method = q.method /\ x.path = q.path}}

\* execute(): Promise<string> { return Promise.resolve('Hello World!'); }
GetHelloUseCase_execute_never == [state |-> "pending", value |-> ""]
GetHelloUseCase_execute_rejects == [state |-> "rejected", value |-> "Error"]
GetHelloUseCase_execute_other == [state |-> "fulfilled", value |-> "Hello World"]
GetHelloUseCase_execute == [state |-> "fulfilled", value |-> "Hello World!"]

\* @Get(): a GET handler that returns normally answers 200.
GetStatus_created == 200 + 1
GetStatus == 200

NoRequest == [method |-> "-", path |-> "-", header |-> "-", query |-> "-", body |-> NoBody]
Pending == [state |-> "pending", value |-> ""]

HttpRequests ==
    [method : {"GET"}, path : {"/"}, header : {"none", "json"},
     query : {"", "x=1"}, body : {NoBody}]
    \cup [method : {"GET"}, path : {"/users"}, header : {"none"}, query : {""}, body : {NoBody}]
    \cup [method : {"POST"}, path : {"/", "/users"}, header : {"json"}, query : {""},
          body : {NoBody, [email |-> EmailAX, name |-> NameAl]}]

\* The instances Nest builds from AppModule, each as its set of fields:
\* AppController's only field is the injected (readonly) use case,
\* GetHelloUseCase has no field.
InitContainer ==
    [controllers |-> AppModule_controllers,
     providers |-> AppModule_providers,
     appController |-> [getHelloUseCase |-> "GetHelloUseCase"],
     getHelloUseCase |-> {}]

IdleCall ==
    [pc |-> "idle", request |-> NoBody, existingUser |-> {}, user |-> {},
     findCalls |-> 0, saveCalls |-> 0, error |-> "", returned |-> {}]

----------------------------------------------------------------------------
(* The User entity, the UserRepository and CreateUserUseCase *)

\* constructor(id, email, name, createdAt = new Date()) {}: assigns, checks nothing.
User_new(id, email, name, createdAt) ==
    [id |-> id, email |-> email, name |-> name, createdAt |-> createdAt]

\* isValid(): this.email.includes('@') && this.name.length > 0
User_isValid(u) == Includes(u.email, "@") /\ Len(u.name.chars) > 0

\* UserRepository.findByEmail: a stored user with that email, or null. The
\* result is a nullable reference; with several matches any one may come back.
FindByEmail(store, email) ==
    LET found == {store[i] : i \in {j \in DOMAIN store : store[j].email = email}}
    IN  IF found = {} THEN {{}} ELSE {{u} : u \in found}

\* UserRepository.save: insert, or replace the stored user with the same id.
Save(store, u) ==
    [i \in (DOMAIN store) \cup {u.id} |-> IF i = u.id THEN u ELSE store[i]]

\* execute(request) up to its first await: the request is validated, then
\* userRepository.findByEmail(request.email) is called.
ExecuteStart_onlyEmail(request) ==
    IF Falsy(request.email)
    THEN [IdleCall EXCEPT !.pc = "rejected", !.request = request,
                          !.error = "Email and name are required"]
    ELSE [IdleCall EXCEPT !.pc = "findByEmail", !.request = request,
                          !.findCalls = 1]

ExecuteStart(request) ==
    IF Falsy(request.email) \/ Falsy(request.name)
    THEN [IdleCall EXCEPT !.pc = "rejected", !.request = request,
                          !.error = "Email and name are required"]
    ELSE [IdleCall EXCEPT !.pc = "findByEmail", !.request = request,
                          !.findCalls = 1]

\* execute from the return of findByEmail up to the await of save: the
\* existence check, new User(generateId(), email, name), the isValid check
\* and the call of userRepository.save(user).
AfterFind_ignoresExisting(k, existing, id, now) ==
    LET user == User_new(id, k.request.email, k.request.name, now)
    IN  IF ~User_isValid(user)
        THEN [k EXCEPT !.pc = "rejected", !.existingUser = existing,
                       !.user = {user}, !.error = "Invalid user data"]
        ELSE [k EXCEPT !.pc = "save", !.existingUser = existing,
                       !.user = {user}, !.saveCalls = @ + 1]

AfterFind_noValidCheck(k, existing, id, now) ==
    IF existing # {}
    THEN [k EXCEPT !.pc = "rejected", !.existingUser = existing,
                   !.error = "User with this email already exists"]
    ELSE LET user == User_new(id, k.request.email, k.request.name, now)
         IN  [k EXCEPT !.pc = "save", !.user = {user}, !.saveCalls = @ + 1]

AfterFind_savesTwice(k, existing, id, now) ==
    IF existing # {}
    THEN [k EXCEPT !.pc = "rejected", !.existingUser = existing,
                   !.error = "User with this email already exists"]
    ELSE LET user == User_new(id, k.request.email, k.request.name, now)
         IN  IF ~User_isValid(user)
             THEN [k EXCEPT !.pc = "rejected", !.user = {user},
                            !.error = "Invalid user data"]
             ELSE [k EXCEPT !.pc = "save", !.user = {user},
                            !.saveCalls = @ + 2]

AfterFind(k, existing, id, now) ==
    IF existing # {}
    THEN [k EXCEPT !.pc = "rejected", !.existingUser = existing,
                   !.error = "User with this email already exists"]
    ELSE LET user == User_new(id, k.request.email, k.request.name, now)
         IN  IF ~User_isValid(user)
             THEN [k EXCEPT !.pc = "rejected", !.user = {user},
                            !.error = "Invalid user data"]
             ELSE [k EXCEPT !.pc = "save", !.user = {user},
                            !.saveCalls = @ + 1]


----------------------------------------------------------------------------
(* User.updateName *)

\* The white space String.prototype.trim removes (those that occur here).
IsSpace(ch) == ch \in {" ", "\t", "\n"}

\* String.prototype.trim on a sequence of characters.
RECURSIVE TrimLeft(_)
TrimLeft(cs) ==
    IF cs # <<>> /\ IsSpace(Head(cs)) THEN TrimLeft(Tail(cs)) ELSE cs

RECURSIVE TrimRight(_)
TrimRight(cs) ==
    IF cs # <<>> /\ IsSpace(cs[Len(cs)])
    THEN TrimRight(SubSeq(cs, 1, Len(cs) - 1))
    ELSE cs

Trim(cs) == TrimRight(TrimLeft(cs))

\* updateName(newName) on the instance heap[i], called at time now: the heap
\* afterwards, whether it threw, and the instance returned.
User_updateName_newDate(heap, i, newName, now) ==
    IF Falsy(newName) \/ Len(Trim(newName.chars)) = 0
    THEN [instances |-> heap, threw |-> TRUE,
          error |-> "Name cannot be empty", returned |-> {}]
    ELSE [instances |-> Append(heap, User_new(heap[i].id, heap[i].email, newName, now)),
          threw |-> FALSE, error |-> "", returned |-> {Len(heap) + 1}]

User_updateName_noCheck(heap, i, newName, now) ==
    [instances |-> Append(heap, User_new(heap[i].id, heap[i].email, newName,
                                         heap[i].createdAt)),
     threw |-> FALSE, error |-> "", returned |-> {Len(heap) + 1}]

User_updateName_noTrim(heap, i, newName, now) ==
    IF Falsy(newName)
    THEN [instances |-> heap, threw |-> TRUE,
          error |-> "Name cannot be empty", returned |-> {}]
    ELSE [instances |-> Append(heap, User_new(heap[i].id, heap[i].email, newName,
                                               heap[i].createdAt)),
          threw |-> FALSE, error |-> "", returned |-> {Len(heap) + 1}]

User_updateName(heap, i, newName, now) ==
    IF Falsy(newName) \/ Len(Trim(newName.chars)) = 0
    THEN [instances |-> heap, threw |-> TRUE,
          error |-> "Name cannot be empty", returned |-> {}]
    ELSE [instances |-> Append(heap, User_new(heap[i].id, heap[i].email, newName,
                                               heap[i].createdAt)),
          threw |-> FALSE, error |-> "", returned |-> {Len(heap) + 1}]

NameBo == Str(<<"B", "o">>)
NamePadded == Str(<<" ", "B", " ">>)
Blank == Str(<<" ">>)
BlankTab == Str(<<" ", "\t">>)

NewNames == {Undefined, Empty, Blank, BlankTab, NameBo, NamePadded}

\* The users some code constructs directly with new User(...).
NewUsers ==
    {User_new(1, email, name, 0) : email \in {EmailAX, EmailBob}, name \in {NameAl, Empty}}

----------------------------------------------------------------------------
(* The guides' UserController, UserApplicationService, CreateUserUseCase   *)
(* (with EmailService and Logger) and User with a validating constructor.  *)
(* Dates (createdAt, updatedAt) are left out of these records.             *)

CtlIds == 1..MaxCalls

\* HttpStatus.BAD_REQUEST
HttpStatus_BAD_REQUEST == 400

\* @Post(): a POST handler that returns normally answers 201.
PostStatus == 201

\* /^[^\s@]+@[^\s@]+\.[^\s@]+$/.test(v): no white space, exactly one '@'
\* with something before it, and after it a '.' with something on both sides.
EmailRegexTest(v) ==
    /\ v.type = "string"
    /\ \A i \in DOMAIN v.chars : ~IsSpace(v.chars[i])
    /\ Cardinality({i \in DOMAIN v.chars : v.chars[i] = "@"}) = 1
    /\ LET at == CHOOSE i \in DOMAIN v.chars : v.chars[i] = "@"
       IN  /\ at >= 2
           /\ \E dot \in (at + 2)..(Len(v.chars) - 1) : v.chars[dot] = "."

Error(message) == [name |-> "Error", message |-> message]

EmailAXY == Str(<<"a", "@", "x", ".", "y">>)
EmailCYZ == Str(<<"c", "@", "y", ".", "z">>)
NameDo == Str(<<"D", "o">>)

\* CreateUserDto bodies reaching createUser.
CreateUserDtos ==
    {[email |-> EmailAXY, firstName |-> NameAl, lastName |-> NameDo],
     [email |-> EmailCYZ, firstName |-> NameAl, lastName |-> NameDo],
     [email |-> EmailAX, firstName |-> NameAl, lastName |-> NameDo],
     [email |-> Undefined, firstName |-> NameAl, lastName |-> NameDo],
     [email |-> EmailAXY, firstName |-> NameAl, lastName |-> Empty]}

NoDto == [email |-> Undefined, firstName |-> Undefined, lastName |-> Undefined]

\* A failure of the database or of the mail server.
DbError == Error("Connection lost")
SmtpError == Error("SMTP timeout")

IdleCtl ==
    [pc |-> "idle", dto |-> NoDto, serviceCalls |-> 0, serviceError |-> {},
     existingUser |-> {}, user |-> {}, findCalls |-> 0, saveCalls |-> 0,
     emailCalls |-> 0, emailFailed |-> FALSE, logs |-> <<>>,
     thrown |-> {}, returned |-> {}, response |-> {}]

\* new CreateUserRequest(email, firstName, lastName): the error its
\* validate() throws, if any.
CreateUserRequest_validate(dto) ==
    IF Falsy(dto.email) \/ Falsy(dto.firstName) \/ Falsy(dto.lastName)
    THEN {Error("Email, firstName, and lastName are required")}
    ELSE IF ~EmailRegexTest(dto.email)
    THEN {Error("Invalid email format")}
    ELSE {}

\* CreateUserUseCase.validateRequest(request): the error it throws, if any.
UseCase_validateRequest(request) ==
    IF Falsy(request.email) \/ Falsy(request.firstName) \/ Falsy(request.lastName)
    THEN {Error("Missing required fields")}
    ELSE {}

\* new User(id, email, firstName, lastName): validateEmail throws or the
\* instance is built (active).
GuideUser_new(id, email, firstName, lastName) ==
    IF ~EmailRegexTest(email)
    THEN [threw |-> TRUE, error |-> Error("Invalid email format"), user |-> {}]
    ELSE [threw |-> FALSE, error |-> Error(""),
          user |-> {[id |-> id, email |-> email, firstName |-> firstName,
                     lastName |-> lastName, isActive |-> TRUE]}]

\* The global exception filter: an HttpException is answered with its
\* status and message, anything else with 500.
ExceptionResponse(ex) ==
    IF ex.name = "HttpException"
    THEN [status |-> ex.status, body |-> ex.message]
    ELSE [status |-> 500, body |-> "Internal server error"]

\* createUser's catch block: the error is logged and an HttpException with
\* its message and BAD_REQUEST is thrown.
ControllerCatch_rethrow(k, err) ==
    [k EXCEPT !.pc = "responded",
              !.logs = Append(@, <<"error", "Failed to create user", err.message>>),
              !.thrown = {err},
              !.response = {ExceptionResponse(err)}]

ControllerCatch(k, err) ==
    LET ex == [name |-> "HttpException", status |-> HttpStatus_BAD_REQUEST,
               message |-> err.message]
    IN  [k EXCEPT !.pc = "responded",
                  !.logs = Append(@, <<"error", "Failed to create user", err.message>>),
                  !.thrown = {ex},
                  !.response = {ExceptionResponse(ex)}]

\* An error leaves userApplicationService.createUser (which only forwards
\* to createUserUseCase.execute) and reaches createUser's catch block.
ServiceThrows(k, err) ==
    ControllerCatch([k EXCEPT !.serviceError = {err}], err)

\* createUser(dto) up to its first await: the request object is built,
\* the service forwards it to execute, which validates it and calls
\* userRepository.findByEmail.
CtlStart(dto) ==
    LET k == [IdleCtl EXCEPT !.dto = dto]
    IN  IF CreateUserRequest_validate(dto) # {}
        THEN ControllerCatch(k, CHOOSE e \in CreateUserRequest_validate(dto) : TRUE)
        ELSE LET k1 == [k EXCEPT !.serviceCalls = 1]
             IN  IF UseCase_validateRequest(dto) # {}
                 THEN ServiceThrows(k1, CHOOSE e \in UseCase_validateRequest(dto) : TRUE)
                 ELSE [k1 EXCEPT !.pc = "findByEmail", !.findCalls = 1]

\* execute from the return of findByEmail (found: the user or null, or failed:
\* the error) up to the await of save; id is what uuidv4() returns.
CtlAfterFind(k, failed, found, id) ==
    IF failed # {}
    THEN ServiceThrows(k, CHOOSE e \in failed : TRUE)
    ELSE IF found # {}
    THEN ServiceThrows([k EXCEPT !.existingUser = found], Error("User already exists"))
    ELSE LET made == GuideUser_new(id, k.dto.email, k.dto.firstName, k.dto.lastName)
         IN  IF made.threw
             THEN ServiceThrows(k, made.error)
             ELSE [k EXCEPT !.pc = "save", !.user = made.user, !.saveCalls = @ + 1]

\* execute from the return of save up to the await inside sendWelcomeEmail.
CtlAfterSave(k, failed) ==
    IF failed # {}
    THEN ServiceThrows(k, CHOOSE e \in failed : TRUE)
    ELSE [k EXCEPT !.pc = "sendWelcomeEmail", !.emailCalls = @ + 1]

CtlAfterEmail_propagates(k, failed) ==
    LET u == CHOOSE x \in k.user : TRUE
        out == [id |-> u.id, email |-> u.email]
    IN  IF failed # {}
        THEN ServiceThrows([k EXCEPT !.emailFailed = TRUE], CHOOSE e \in failed : TRUE)
        ELSE [k EXCEPT !.pc = "responded",
                       !.logs = Append(@, <<"log", "User created", "">>),
                       !.returned = {out},
                       !.response = {[status |-> PostStatus, body |-> out]}]

\* execute from the return of emailService.sendWelcomeEmail to the end: a
\* failure is logged and swallowed, the creation is logged, the response is
\* returned through the service to createUser, which answers with the DTO.
CtlAfterEmail(k, failed) ==
    LET u == CHOOSE x \in k.user : TRUE
        k1 == IF failed # {}
              THEN [k EXCEPT !.emailFailed = TRUE,
                             !.logs = Append(@, <<"error", "Failed to send welcome email",
                                                  (CHOOSE e \in failed : TRUE).message>>)]
              ELSE k
        out == [id |-> u.id, email |-> u.email]
    IN  [k1 EXCEPT !.pc = "responded",
                   !.logs = Append(@, <<"log", "User created", "">>),
                   !.returned = {out},
                   !.response = {[status |-> PostStatus, body |-> out]}]

----------------------------------------------------------------------------
(* The Product entity *)

RECURSIVE GCD(_, _)
GCD(a, b) == IF b = 0 THEN a ELSE GCD(b, a % b)

Abs(n) == IF n < 0 THEN -n ELSE n

\* The number n/d in lowest terms with a positive denominator (d # 0).
Rat(n, d) ==
    LET g == GCD(Abs(n), Abs(d))
        sgn == IF d < 0 THEN -1 ELSE 1
    IN  [num |-> sgn * (n \div g), den |-> sgn * (d \div g)]

RatSub(x, y) == Rat(x.num * y.den - y.num * x.den, x.den * y.den)
RatMul(x, y) == Rat(x.num * y.num, x.den * y.den)
RatDiv(x, y) == Rat(x.num * y.den, x.den * y.num)
RatLess(x, y) == x.num * y.den < y.num * x.den

Zero == Rat(0, 1)
One == Rat(1, 1)
Hundred == Rat(100, 1)

\* new Product(id, name, price, category)
Product_new(id, name, price, category) ==
    [id |-> id, name |-> name, price |-> price, category |-> category]

\* applyDiscount(discountPercent) on the instance ps[i] of the heap ps:
\* the heap afterwards, whether it threw, and the instance returned.
Product_applyDiscount_fraction(ps, i, d) ==
    IF RatLess(d, Zero) \/ RatLess(Hundred, d)
    THEN [products |-> ps, threw |-> TRUE,
          error |-> "Invalid discount percentage", returned |-> {}]
    ELSE LET newPrice == RatMul(ps[i].price, RatDiv(d, Hundred))
         IN  [products |-> Append(ps, Product_new(ps[i].id, ps[i].name, newPrice, ps[i].category)),
              threw |-> FALSE, error |-> "", returned |-> {Len(ps) + 1}]

Product_applyDiscount_noUpperCheck(ps, i, d) ==
    IF RatLess(d, Zero)
    THEN [products |-> ps, threw |-> TRUE,
          error |-> "Invalid discount percentage", returned |-> {}]
    ELSE LET newPrice == RatMul(ps[i].price, RatSub(One, RatDiv(d, Hundred)))
         IN  [products |-> Append(ps, Product_new(ps[i].id, ps[i].name, newPrice, ps[i].category)),
              threw |-> FALSE, error |-> "", returned |-> {Len(ps) + 1}]

Product_applyDiscount(ps, i, d) ==
    IF RatLess(d, Zero) \/ RatLess(Hundred, d)
    THEN [products |-> ps, threw |-> TRUE,
          error |-> "Invalid discount percentage", returned |-> {}]
    ELSE LET newPrice == RatMul(ps[i].price, RatSub(One, RatDiv(d, Hundred)))
         IN  [products |-> Append(ps, Product_new(ps[i].id, ps[i].name, newPrice, ps[i].category)),
              threw |-> FALSE, error |-> "", returned |-> {Len(ps) + 1}]

Prices == {Rat(0, 1), Rat(100, 1), Rat(1999, 100)}
Discounts == {Rat(-10, 1), Rat(0, 1), Rat(20, 1), Rat(25, 2), Rat(100, 1), Rat(101, 1)}

NewProducts ==
    {Product_new(id, "Test Product", price, category) :
        id \in {"1", "2"}, price \in Prices, category \in {"Electronics"}}

----------------------------------------------------------------------------
(* Request handling *)

\* A request arrives at the server.
Receive(r) ==
    /\ pc[r] = "idle"
    /\ \E q \in HttpRequests : req' = [req EXCEPT ![r] = q]
    /\ pc' = [pc EXCEPT ![r] = "received"]
    /\ UNCHANGED <<promise, result, responses, calls, container, userVars, productVars, entityVars, ctlVars>>

\* The router picks the handler. No route: 404. GET /: AppController.getHello
\* is entered. POST /users (only when UserController is registered): a
\* CreateUserUseCase.execute invocation is started with the body.
Dispatch(r) ==
    /\ pc[r] = "received"
    /\ IF Handlers(req[r]) = {}
       THEN /\ responses' = [responses EXCEPT ![r] = Append(@, [status |-> 404, body |-> "Not Found"])]
            /\ pc' = [pc EXCEPT ![r] = "responded"]
            /\ UNCHANGED <<calls, call>>
       ELSE IF "AppController.getHello" \in Handlers(req[r])
       THEN /\ calls' = [calls EXCEPT ![r].getHello = @ + 1]
            /\ pc' = [pc EXCEPT ![r] = "getHello"]
            /\ UNCHANGED <<responses, call>>
       ELSE /\ pc' = [pc EXCEPT ![r] = "createUser"]
            /\ IF \E c \in CallIds : call[c].pc = "idle"
               THEN LET c == CHOOSE c \in CallIds : call[c].pc = "idle"
                    IN call' = [call EXCEPT ![c] = ExecuteStart(req[r].body)]
               ELSE UNCHANGED call
            /\ UNCHANGED <<responses, calls>>
    /\ UNCHANGED <<req, promise, result, container, users, productVars, entityVars, ctlVars>>

\* getHello() evaluates this.getHelloUseCase.execute() and suspends at await.
CallExecute_twice(r) ==
    /\ pc[r] = "getHello"
    /\ calls' = [calls EXCEPT ![r].execute = @ + 2]
    /\ promise' = [promise EXCEPT ![r] = GetHelloUseCase_execute]
    /\ pc' = [pc EXCEPT ![r] = "awaiting"]
    /\ UNCHANGED <<req, result, responses, container, userVars, productVars, entityVars, ctlVars>>

CallExecute_counting(r) ==
    /\ pc[r] = "getHello"
    /\ calls' = [calls EXCEPT ![r].execute = @ + 1]
    /\ promise' = [promise EXCEPT ![r] = GetHelloUseCase_execute]
    /\ pc' = [pc EXCEPT ![r] = "awaiting"]
    /\ container' = [container EXCEPT !.getHelloUseCase = {<<"count", calls[r].execute + 1>>}]
    /\ UNCHANGED <<req, result, responses, userVars, productVars, entityVars, ctlVars>>

CallExecute(r) ==
    /\ pc[r] = "getHello"
    /\ calls' = [calls EXCEPT ![r].execute = @ + 1]
    /\ promise' = [promise EXCEPT ![r] = GetHelloUseCase_execute]
    /\ pc' = [pc EXCEPT ![r] = "awaiting"]
    /\ UNCHANGED <<req, result, responses, container, userVars, productVars, entityVars, ctlVars>>

\* The await resumes with the settled promise; `return await p` settles
\* getHello()'s own promise the same way.
Resume(r) ==
    /\ pc[r] = "awaiting"
    /\ promise[r].state # "pending"
    /\ result' = [result EXCEPT ![r] = promise[r]]
    /\ pc' = [pc EXCEPT ![r] = "returned"]
    /\ UNCHANGED <<req, promise, responses, calls, container, userVars, productVars, entityVars, ctlVars>>

\* Nest writes the response: the handler's value with the route's status,
\* or 500 when the handler rejected.
ResponseFor(res) ==
    IF res.state = "fulfilled"
    THEN [status |-> GetStatus, body |-> res.value]
    ELSE [status |-> 500, body |-> "Internal server error"]

Respond_shared(r) ==
    /\ pc[r] = "returned"
    /\ responses' = [q \in ReqIds |->
                       IF pc[q] = "returned"
                       THEN Append(responses[q], ResponseFor(result[r]))
                       ELSE responses[q]]
    /\ pc' = [pc EXCEPT ![r] = "responded"]
    /\ UNCHANGED <<req, promise, result, calls, container, userVars, productVars, entityVars, ctlVars>>

Respond(r) ==
    /\ pc[r] = "returned"
    /\ responses' = [responses EXCEPT ![r] = Append(@, ResponseFor(result[r]))]
    /\ pc' = [pc EXCEPT ![r] = "responded"]
    /\ UNCHANGED <<req, promise, result, calls, container, userVars, productVars, entityVars, ctlVars>>

InitUser ==
    /\ call = [c \in CallIds |-> IdleCall]
    /\ users = <<>>

InitProduct ==
    /\ products = <<>>
    /\ lastOp = [kind |-> "none"]

InitHttp ==
    /\ req = [r \in ReqIds |-> NoRequest]
    /\ pc = [r \in ReqIds |-> "idle"]
    /\ promise = [r \in ReqIds |-> Pending]
    /\ result = [r \in ReqIds |-> Pending]
    /\ responses = [r \in ReqIds |-> <<>>]
    /\ calls = [r \in ReqIds |-> [getHello |-> 0, execute |-> 0]]
    /\ container = InitContainer

InitCtl == ctl = [r \in CtlIds |-> IdleCtl]

InitEntity ==
    /\ instances = <<>>
    /\ lastUpdate = [kind |-> "none"]
    /\ renamedFrom = <<>>

Init == InitHttp /\ InitUser /\ InitProduct /\ InitEntity /\ InitCtl

Next ==
    \E r \in ReqIds :
        \/ Receive(r)
        \/ Dispatch(r)
        \/ CallExecute(r)
        \/ Resume(r)
        \/ Respond(r)

Spec == Init /\ [][Next]_vars

\* The event loop runs every callback that is ready: a request that can be
\* dispatched, a handler that can be entered, an await whose promise has
\* settled and a response that can be written are each run eventually.
\* Nothing obliges a client to send a request.
SpecFair ==
    /\ Init
    /\ [][Next]_vars
    /\ \A r \in ReqIds :
        /\ WF_vars(Dispatch(r))
        /\ WF_vars(CallExecute(r))
        /\ WF_vars(Resume(r))
        /\ WF_vars(Respond(r))

----------------------------------------------------------------------------
(* Properties of the running application (Spec) *)

IsGetRoot(r) == req[r].method = "GET" /\ req[r].path = "/"
Hello == [status |-> 200, body |-> "Hello World!"]

\* C1: every answered GET / request, whatever its headers and query and
\* whatever was handled before it, got status 200 and the body
\* "Hello World!".
C1_GetRootAnswersHello ==
    \A r \in ReqIds :
        (pc[r] = "responded" /\ IsGetRoot(r)) => responses[r] = <<Hello>>

C1_Witness ==
    \E r, q \in ReqIds :
        /\ r # q
        /\ pc[r] = "responded" /\ IsGetRoot(r)
        /\ pc[q] = "responded" /\ IsGetRoot(q)
        /\ req[r].header = "json" /\ req[r].query = "x=1"
        /\ req[q].header = "none" /\ req[q].query = ""

\* C2: every invocation of GetHelloUseCase.execute(), the first as well as
\* any later one, returned a promise fulfilled with "Hello World!".
C2_ExecuteResolvesHello ==
    \A r \in ReqIds :
        calls[r].execute > 0 =>
            /\ promise[r].state = "fulfilled"
            /\ promise[r].value = "Hello World!"

C2_Witness ==
    \A r \in ReqIds : calls[r].execute > 0

\* C3: the GET / path never fails: no promise returned by execute() or by
\* getHello() is rejected, and no request is answered with an error status.
C3_NeverRejects ==
    \A r \in ReqIds :
        /\ promise[r].state # "rejected"
        /\ result[r].state # "rejected"
        /\ (IsGetRoot(r) => \A i \in 1..Len(responses[r]) : responses[r][i].status < 400)

C3_Witness ==
    \E r \in ReqIds : result[r].state = "fulfilled" /\ pc[r] = "responded"

\* C4: handling requests writes nothing: the application's instances and
\* their fields, the user repository, the use-case invocations and the
\* products are what they were after construction.
C4_NoSideEffects ==
    /\ container = InitContainer
    /\ users = <<>>
    /\ call = [c \in CallIds |-> IdleCall]
    /\ products = <<>>

C4_Witness ==
    \A r \in ReqIds : pc[r] = "responded" /\ IsGetRoot(r)

\* C5: under every interleaving each request gets exactly one response, a
\* GET / gets (200, "Hello World!"), two requests for the same route get the
\* same outcome whatever ran in between, and a step taken for one request
\* changes nothing of another request nor of the application's instances.
C5_StateOk ==
    /\ \A r \in ReqIds :
        /\ Len(responses[r]) <= 1
        /\ (pc[r] = "responded" <=> Len(responses[r]) = 1)
        /\ (pc[r] = "responded" /\ IsGetRoot(r) => responses[r] = <<Hello>>)
    /\ \A r, q \in ReqIds :
        (/\ pc[r] = "responded" /\ pc[q] = "responded"
         /\ req[r].method = req[q].method /\ req[r].path = req[q].path)
        => responses[r] = responses[q]

ReqState(r) == <<req[r], pc[r], promise[r], result[r], responses[r], calls[r]>>

C5_StepOk ==
    /\ \A r, q \in ReqIds :
        (r # q /\ ReqState(r)' # ReqState(r)) => ReqState(q)' = ReqState(q)
    /\ container' = container

C5_IndependentRequests == []C5_StateOk /\ [][C5_StepOk]_vars

C5_Witness ==
    \E r, q \in ReqIds :
        /\ r # q
        /\ pc[r] = "awaiting" /\ pc[q] = "returned"
        /\ req[r] # req[q]

\* C6: a GET / request enters AppController.getHello once, getHello calls
\* GetHelloUseCase.execute() once, and the response is written only after
\* execute()'s promise has resolved, with that promise's value as its body.
C6_CallChain ==
    \A r \in ReqIds :
        /\ calls[r].getHello <= 1
        /\ calls[r].execute <= calls[r].getHello
        /\ (pc[r] \in {"awaiting", "returned"} =>
               calls[r].execute = 1 /\ responses[r] = <<>>)
        /\ (responses[r] # <<>> /\ IsGetRoot(r) =>
               /\ calls[r].getHello = 1
               /\ calls[r].execute = 1
               /\ promise[r].state = "fulfilled"
               /\ result[r] = promise[r]
               /\ responses[r][1].body = promise[r].value)
        /\ (~IsGetRoot(r) => calls[r].getHello = 0)

C6_Witness ==
    \E r, q \in ReqIds :
        /\ pc[r] = "responded" /\ IsGetRoot(r)
        /\ pc[q] = "responded" /\ ~IsGetRoot(q)

\* C7: AppModule registers only AppController and GetHelloUseCase, and no
\* request, POST /users included, starts CreateUserUseCase.execute, calls
\* the UserRepository or constructs a User.
C7_NoEntityLifecycle ==
    /\ container.controllers = {"AppController"}
    /\ container.providers = {"GetHelloUseCase"}
    /\ \A c \in CallIds :
        /\ call[c].pc = "idle"
        /\ call[c].findCalls = 0 /\ call[c].saveCalls = 0
        /\ call[c].user = {}
    /\ users = <<>>
    /\ \A r \in ReqIds : pc[r] # "createUser"

C7_Witness ==
    \E r, q \in ReqIds :
        /\ pc[r] = "responded"
        /\ req[r].method = "POST" /\ req[r].path = "/users"
        /\ req[r].body.email = EmailAX
        /\ pc[q] = "responded" /\ IsGetRoot(q)

\* Request r has been received and not answered yet.
InFlight(r) == pc[r] \in {"received", "getHello", "awaiting", "returned"}

\* The next step of handling r can be taken now.
CanStep(r) == ENABLED (Dispatch(r) \/ CallExecute(r) \/ Resume(r) \/ Respond(r))

\* C23: every received GET / request is eventually answered, with its one
\* response written; and while it is in flight its next step is always
\* ready to run, whatever state the other requests are in (it never waits
\* for another request).
C23_EveryGetAnswered ==
    /\ [](\A r \in ReqIds : (IsGetRoot(r) /\ InFlight(r)) => CanStep(r))
    /\ \A r \in ReqIds :
        (pc[r] = "received" /\ IsGetRoot(r)) ~> (pc[r] = "responded" /\ Len(responses[r]) = 1)

C23_Witness ==
    \E r, q \in ReqIds :
        /\ r # q
        /\ IsGetRoot(r) /\ pc[r] = "responded" /\ responses[r] = <<Hello>>
        /\ IsGetRoot(q) /\ pc[q] = "awaiting"

----------------------------------------------------------------------------
(* CreateUserUseCase.execute under concurrent callers (SpecUser) *)

\* A caller invokes execute(request).
Execute(c) ==
    /\ call[c].pc = "idle"
    /\ \E request \in CreateUserRequests :
           call' = [call EXCEPT ![c] = ExecuteStart(request)]
    /\ UNCHANGED <<users, httpVars, productVars, entityVars, ctlVars>>

\* findByEmail reads the store and execute resumes; generateId() and
\* new Date() yield some id and some time.
FindByEmailReturns(c) ==
    /\ call[c].pc = "findByEmail"
    /\ \E existing \in FindByEmail(users, call[c].request.email) :
       \E id \in Ids, now \in Times :
           call' = [call EXCEPT ![c] = AfterFind(call[c], existing, id, now)]
    /\ UNCHANGED <<users, httpVars, productVars, entityVars, ctlVars>>

\* save writes the store and execute returns the user.
SaveReturns(c) ==
    /\ call[c].pc = "save"
    /\ \E u \in call[c].user :
        /\ users' = Save(users, u)
        /\ call' = [call EXCEPT ![c].pc = "resolved", ![c].returned = {u}]
    /\ UNCHANGED <<httpVars, productVars, entityVars, ctlVars>>

NextUser ==
    \E c \in CallIds :
        \/ Execute(c)
        \/ FindByEmailReturns(c)
        \/ SaveReturns(c)

SpecUser == Init /\ [][NextUser]_vars

\* Every User instance that exists: held by an invocation or stored.
ExistingUsers ==
    UNION {call[c].user \cup call[c].existingUser \cup call[c].returned : c \in CallIds}
    \cup {users[i] : i \in DOMAIN users}

\* C8: no User instance exists whose email does not contain '@'.
C8_EveryUserEmailHasAt ==
    \A u \in ExistingUsers : Includes(u.email, "@")

\* C9: an invocation whose findByEmail returned an existing user (one with
\* the requested email) is rejected with 'User with this email already
\* exists', has not called save and returns no user.
C9_ExistingUserRejected ==
    \A c \in CallIds :
        call[c].existingUser # {} =>
            /\ call[c].pc = "rejected"
            /\ call[c].error = "User with this email already exists"
            /\ call[c].saveCalls = 0
            /\ call[c].returned = {}
            /\ \A u \in call[c].existingUser : u.email = call[c].request.email

C9_Witness ==
    \E c \in CallIds :
        /\ call[c].existingUser # {}
        /\ call[c].findCalls = 1
        /\ call[c].pc = "rejected"

Started(c) == call[c].pc # "idle"
Missing(v) == v = Undefined \/ v = Empty

\* C14: an invocation whose request.email or request.name is empty or
\* missing is rejected with 'Email and name are required' without having
\* called findByEmail or save and without having constructed a User.
C14_RequiredFields ==
    \A c \in CallIds :
        (Started(c) /\ (Missing(call[c].request.email) \/ Missing(call[c].request.name))) =>
            /\ call[c].pc = "rejected"
            /\ call[c].error = "Email and name are required"
            /\ call[c].findCalls = 0
            /\ call[c].saveCalls = 0
            /\ call[c].user = {}
            /\ call[c].returned = {}

C14_Witness ==
    \E c, d \in CallIds :
        /\ call[c].pc = "rejected"
        /\ call[c].request.email = EmailAX /\ call[c].request.name = Empty
        /\ call[d].pc = "rejected"
        /\ call[d].request.email = Undefined /\ call[d].request.name = NameAl

HasAt(v) == \E i \in DOMAIN v.chars : v.chars[i] = "@"

\* C15 as claimed: every User passed to save is valid, and every request
\* whose email lacks '@' is rejected with 'Invalid user data' and not saved.
C15_AsClaimed ==
    \A c \in CallIds :
        /\ (call[c].saveCalls > 0 =>
               \A u \in call[c].user : HasAt(u.email) /\ Len(u.name.chars) > 0)
        /\ ((Started(c) /\ ~HasAt(call[c].request.email) /\ call[c].pc # "findByEmail") =>
               /\ call[c].pc = "rejected"
               /\ call[c].error = "Invalid user data"
               /\ call[c].saveCalls = 0)

\* C15 amended: every User passed to save, and every stored User, has an
\* email containing '@' and a non-empty name; a request whose email lacks
\* '@' is rejected and never saved; it is rejected with 'Invalid user data'
\* when its email and name are non-empty and findByEmail returned no user.
C15_SavedUsersValid ==
    /\ \A c \in CallIds :
        /\ (call[c].saveCalls > 0 =>
               \A u \in call[c].user : HasAt(u.email) /\ Len(u.name.chars) > 0)
        /\ ((Started(c) /\ ~HasAt(call[c].request.email)) =>
               /\ call[c].pc \in {"findByEmail", "rejected"}
               /\ call[c].saveCalls = 0
               /\ call[c].returned = {})
        /\ ((/\ call[c].pc = "rejected"
             /\ ~HasAt(call[c].request.email)
             /\ ~Missing(call[c].request.email) /\ ~Missing(call[c].request.name)
             /\ call[c].existingUser = {}) =>
               call[c].error = "Invalid user data")
    /\ \A i \in DOMAIN users :
        HasAt(users[i].email) /\ Len(users[i].name.chars) > 0

C15_Witness ==
    \E c, d \in CallIds :
        /\ call[c].pc = "rejected" /\ call[c].request.email = EmailBob
        /\ call[c].error = "Invalid user data"
        /\ call[d].pc = "resolved"

\* C16: within one invocation save is called at most once, and only after
\* that invocation's findByEmail(request.email) returned no user; on success
\* the returned User is the one passed to save and carries request.email and
\* request.name.
C16_SaveOnceAfterFind ==
    \A c \in CallIds :
        /\ call[c].saveCalls <= 1
        /\ call[c].findCalls <= 1
        /\ (call[c].pc = "findByEmail" => call[c].saveCalls = 0)
        /\ (call[c].saveCalls = 1 =>
               /\ call[c].findCalls = 1
               /\ call[c].existingUser = {}
               /\ call[c].pc \in {"save", "resolved"})
        /\ (call[c].pc = "resolved" =>
               /\ call[c].saveCalls = 1
               /\ call[c].returned = call[c].user
               /\ Cardinality(call[c].returned) = 1
               /\ \A u \in call[c].returned :
                      u.email = call[c].request.email /\ u.name = call[c].request.name)
        /\ (call[c].pc # "resolved" => call[c].returned = {})

C16_Witness ==
    \E c, d \in CallIds :
        /\ c # d
        /\ call[c].pc = "resolved" /\ call[c].request.email = EmailAX
        /\ call[d].pc = "save" /\ call[d].request.email = EmailCY

C18_DistinctIds ==
    \A c, d \in CallIds :
        (c # d /\ call[c].pc = "resolved" /\ call[d].pc = "resolved") =>
            /\ \A u \in call[c].returned, v \in call[d].returned : u.id # v.id
            /\ \A u \in call[c].returned : u.id \in DOMAIN users /\ users[u.id] = u

----------------------------------------------------------------------------
(* Product.applyDiscount (SpecProduct) *)

\* Some code constructs a product.
CreateProduct ==
    /\ Len(products) < MaxProducts
    /\ \E p \in NewProducts : products' = Append(products, p)
    /\ lastOp' = [kind |-> "new"]
    /\ UNCHANGED <<httpVars, userVars, entityVars, ctlVars>>

\* Some code calls products[i].applyDiscount(d).
ApplyDiscount ==
    \E i \in DOMAIN products, d \in Discounts :
        LET out == Product_applyDiscount(products, i, d)
        IN  /\ Len(out.products) <= MaxProducts
            /\ products' = out.products
            /\ lastOp' = [kind |-> "applyDiscount", receiver |-> i, discount |-> d,
                          before |-> products[i], after |-> out.products[i],
                          heapBefore |-> products,
                          threw |-> out.threw, error |-> out.error,
                          returned |-> out.returned]
            /\ UNCHANGED <<httpVars, userVars, entityVars, ctlVars>>

NextProduct == CreateProduct \/ ApplyDiscount

SpecProduct == Init /\ [][NextProduct]_vars

InRange(d) == ~RatLess(d, Zero) /\ ~RatLess(Hundred, d)

\* C10: applyDiscount(d) with 0 <= d <= 100 does not throw and returns a
\* new Product with price = receiver's price * (100 - d) / 100 and the
\* receiver's id, name and category; the receiver and every other product
\* are left as they were (price 100 with d = 20 gives 80).
C10_ApplyDiscount ==
    (lastOp.kind = "applyDiscount" /\ InRange(lastOp.discount)) =>
        /\ ~lastOp.threw
        /\ lastOp.returned = {Len(lastOp.heapBefore) + 1}
        /\ Len(products) = Len(lastOp.heapBefore) + 1
        /\ \A j \in DOMAIN lastOp.heapBefore : products[j] = lastOp.heapBefore[j]
        /\ lastOp.after = lastOp.before
        /\ \A n \in lastOp.returned :
            /\ RatMul(products[n].price, Hundred)
                 = RatMul(lastOp.before.price, RatSub(Hundred, lastOp.discount))
            /\ products[n].id = lastOp.before.id
            /\ products[n].name = lastOp.before.name
            /\ products[n].category = lastOp.before.category
            /\ (lastOp.before.price = Rat(100, 1) /\ lastOp.discount = Rat(20, 1)
                  => products[n].price = Rat(80, 1))

C10_Witness ==
    /\ lastOp.kind = "applyDiscount"
    /\ lastOp.before.price = Rat(100, 1)
    /\ lastOp.discount = Rat(20, 1)
    /\ \E n \in lastOp.returned : products[n].price = Rat(80, 1)

\* C11: applyDiscount(d) with d < 0 or d > 100 throws 'Invalid discount
\* percentage', constructs no Product and leaves the receiver and every
\* other product as they were.
C11_InvalidDiscountThrows ==
    (/\ lastOp.kind = "applyDiscount"
     /\ (lastOp.discount.num < 0 \/ lastOp.discount.num > 100 * lastOp.discount.den)) =>
        /\ lastOp.threw
        /\ lastOp.error = "Invalid discount percentage"
        /\ lastOp.returned = {}
        /\ products = lastOp.heapBefore
        /\ lastOp.after = lastOp.before

C11_Witness ==
    /\ lastOp.kind = "applyDiscount"
    /\ lastOp.threw
    /\ lastOp.discount = Rat(101, 1)
    /\ Len(products) >= 2

----------------------------------------------------------------------------
(* User.updateName (SpecEntity) *)

\* Some code constructs a user.
CreateUser ==
    /\ Len(instances) < MaxInstances
    /\ \E u \in NewUsers : instances' = Append(instances, u)
    /\ lastUpdate' = [kind |-> "new"]
    /\ renamedFrom' = Append(renamedFrom, 0)
    /\ UNCHANGED <<httpVars, userVars, productVars, ctlVars>>

\* Some code calls instances[i].updateName(newName).
UpdateName ==
    \E i \in DOMAIN instances, newName \in NewNames, now \in Times :
        LET out == User_updateName(instances, i, newName, now)
        IN  /\ Len(out.instances) <= MaxInstances
            /\ instances' = out.instances
            /\ lastUpdate' = [kind |-> "updateName", receiver |-> i, newName |-> newName,
                              before |-> instances[i], after |-> out.instances[i],
                              heapBefore |-> instances,
                              threw |-> out.threw, error |-> out.error,
                              returned |-> out.returned]
            /\ renamedFrom' = IF out.threw THEN renamedFrom ELSE Append(renamedFrom, i)
            /\ UNCHANGED <<httpVars, userVars, productVars, ctlVars>>

NextEntity == CreateUser \/ UpdateName

SpecEntity == Init /\ [][NextEntity]_vars

\* newName is empty, missing or made of white space only.
IsBlank(v) ==
    v.type = "undefined" \/ \A i \in DOMAIN v.chars : v.chars[i] \in {" ", "\t", "\n"}

\* C19: updateName(newName) with a non-blank newName does not throw and
\* returns a new User with the receiver's id, email and createdAt and with
\* name = newName (kept as given, untrimmed); the receiver and every other
\* instance are left as they were.
C19_UpdateNameReturnsCopy ==
    (lastUpdate.kind = "updateName" /\ ~IsBlank(lastUpdate.newName)) =>
        /\ ~lastUpdate.threw
        /\ lastUpdate.returned = {Len(lastUpdate.heapBefore) + 1}
        /\ Len(instances) = Len(lastUpdate.heapBefore) + 1
        /\ \A j \in DOMAIN lastUpdate.heapBefore : instances[j] = lastUpdate.heapBefore[j]
        /\ lastUpdate.after = lastUpdate.before
        /\ \A n \in lastUpdate.returned :
            /\ instances[n].id = lastUpdate.before.id
            /\ instances[n].email = lastUpdate.before.email
            /\ instances[n].createdAt = lastUpdate.before.createdAt
            /\ instances[n].name = lastUpdate.newName

C19_Witness ==
    /\ lastUpdate.kind = "updateName"
    /\ lastUpdate.newName = NamePadded
    /\ lastUpdate.before.name = NameAl
    /\ \E n \in lastUpdate.returned : instances[n].name = NamePadded

\* C20: updateName(newName) with an empty, missing or white-space-only
\* newName throws 'Name cannot be empty' and constructs no User.
C20_BlankNameThrows ==
    (lastUpdate.kind = "updateName" /\ IsBlank(lastUpdate.newName)) =>
        /\ lastUpdate.threw
        /\ lastUpdate.error = "Name cannot be empty"
        /\ lastUpdate.returned = {}
        /\ instances = lastUpdate.heapBefore

C20_Witness ==
    /\ lastUpdate.kind = "updateName"
    /\ lastUpdate.threw
    /\ lastUpdate.newName = BlankTab
    /\ Len(instances) >= 2

\* The instance constructed with new from which instances[n] descends
\* through updateName calls.
RECURSIVE Original(_)
Original(n) == IF renamedFrom[n] = 0 THEN n ELSE Original(renamedFrom[n])

\* The number of updateName calls between Original(n) and instances[n].
RECURSIVE Renames(_)
Renames(n) == IF renamedFrom[n] = 0 THEN 0 ELSE 1 + Renames(renamedFrom[n])

\* C21: a User obtained from a valid User through any number of successful
\* updateName calls is valid: its email contains '@' and its name is a
\* string of at least one character.
C21_RenamePreservesValidity ==
    \A n \in DOMAIN instances :
        User_isValid(instances[Original(n)]) =>
            /\ User_isValid(instances[n])
            /\ instances[n].name.type = "string"
            /\ Len(instances[n].name.chars) > 0
            /\ \E j \in DOMAIN instances[n].email.chars : instances[n].email.chars[j] = "@"

C21_Witness ==
    \E n \in DOMAIN instances :
        /\ Renames(n) >= 2
        /\ User_isValid(instances[Original(n)])
        /\ instances[n].name = NamePadded
        /\ instances[renamedFrom[n]].name = NameBo
        /\ instances[Original(n)].name = NameAl

----------------------------------------------------------------------------
(* POST /users through UserController.createUser (SpecController) *)

\* A POST /users request reaches createUser.
CtlCreateUser(r) ==
    /\ ctl[r].pc = "idle"
    /\ \E dto \in CreateUserDtos : ctl' = [ctl EXCEPT ![r] = CtlStart(dto)]
    /\ UNCHANGED <<users, call, httpVars, productVars, entityVars>>

\* findByEmail returns (or fails) and execute resumes; uuidv4() yields an
\* id no other call gets.
CtlFindReturns(r) ==
    /\ ctl[r].pc = "findByEmail"
    /\ \/ \E found \in FindByEmail(users, ctl[r].dto.email) :
            ctl' = [ctl EXCEPT ![r] = CtlAfterFind(ctl[r], {}, found, r)]
       \/ ctl' = [ctl EXCEPT ![r] = CtlAfterFind(ctl[r], {DbError}, {}, r)]
    /\ UNCHANGED <<users, call, httpVars, productVars, entityVars>>

\* save writes the store (or fails) and execute resumes.
CtlSaveReturns(r) ==
    /\ ctl[r].pc = "save"
    /\ \/ /\ \E u \in ctl[r].user : users' = Save(users, u)
          /\ ctl' = [ctl EXCEPT ![r] = CtlAfterSave(ctl[r], {})]
       \/ /\ ctl' = [ctl EXCEPT ![r] = CtlAfterSave(ctl[r], {DbError})]
          /\ UNCHANGED users
    /\ UNCHANGED <<call, httpVars, productVars, entityVars>>

\* sendWelcomeEmail returns (or fails) and execute runs to its end.
CtlEmailReturns(r) ==
    /\ ctl[r].pc = "sendWelcomeEmail"
    /\ \E failed \in {{}, {SmtpError}} :
           ctl' = [ctl EXCEPT ![r] = CtlAfterEmail(ctl[r], failed)]
    /\ UNCHANGED <<users, call, httpVars, productVars, entityVars>>

NextController ==
    \E r \in CtlIds :
        \/ CtlCreateUser(r)
        \/ CtlFindReturns(r)
        \/ CtlSaveReturns(r)
        \/ CtlEmailReturns(r)

SpecController == Init /\ [][NextController]_vars

\* C12: a POST /users for a user that already exists is answered 409.
C12_ExistingUserConflict ==
    \A r \in CtlIds :
        (ctl[r].pc = "responded" /\ ctl[r].existingUser # {}) =>
            \A res \in ctl[r].response : res.status = 409

C22_EmailFailureSwallowed ==
    \A r \in CtlIds :
        ctl[r].emailFailed =>
            /\ ctl[r].pc = "responded"
            /\ ctl[r].saveCalls = 1
            /\ ctl[r].emailCalls = 1
            /\ Cardinality(ctl[r].user) = 1
            /\ \A u \in ctl[r].user :
                /\ \E i \in DOMAIN users : users[i] = u
                /\ ctl[r].returned = {[id |-> u.id, email |-> u.email]}
                /\ ctl[r].response = {[status |-> 201,
                                        body |-> [id |-> u.id, email |-> u.email]]}
            /\ ctl[r].serviceError = {}
            /\ ctl[r].thrown = {}
            /\ \E n \in DOMAIN ctl[r].logs :
                   ctl[r].logs[n] = <<"error", "Failed to send welcome email",
                                      "SMTP timeout">>

C22_Witness ==
    \E r \in CtlIds :
        /\ ctl[r].emailFailed
        /\ ctl[r].dto.email = EmailAXY
        /\ ctl[r].returned = {[id |-> r, email |-> EmailAXY]}
        /\ Len(ctl[r].logs) >= 2

====
